---- MODULE Spec2Model ----
(***************************************************************************)
(* A model of three programs of the repository:                            *)
(*   H3/sudoku_solver.py  the Sudoku reduction to a CSP and its solve()    *)
(*   H1/hanoi.py, stack.py  the Tower-of-Hanoi disc mover                  *)
(*   H9/01knapsack.py     the 0/1 knapsack tabulation                      *)
(* The CSP engine (module csp) is imported by sudoku_solver.py; its        *)
(* backtracking search is modelled from the algorithm of spec.md 4.2.      *)
(***************************************************************************)
EXTENDS Integers, Sequences, FiniteSets, TLC

VARIABLES
    sudoku,      \* Sudoku.sudoku: the grid, cell -> digit or None
    _variables,  \* Sudoku._variables
    _domains,    \* Sudoku._domains
    _csp,        \* Sudoku._csp: variables, domains, constraints per variable
    solution,    \* the value backtracking_search() returned to the last solve()
    op,          \* the Sudoku method that ran last, "search" while solve() is searching
    frames,      \* the active calls of backtracking_search: variable and value index
    assignment,  \* the assignment argument of the innermost active call
    applied,     \* history: the number of solve() calls that applied a solution
    cell,        \* argument of a generate_restricting_cells call
    peers,       \* value returned by that call
    towers,      \* hanoi.py: the _container of tower_a, tower_b, tower_c
    calls,       \* hanoi.py: the active calls of hanoi(), innermost last
    op_counter,  \* hanoi.py: the global op_counter
    error,       \* hanoi.py: the exception that ended the run, if any
    items,       \* 01knapsack.py: argument items
    max_capacity,\* 01knapsack.py: argument max_capacity
    selection,   \* 01knapsack.py: the list knapsack() returned
    returned     \* 01knapsack.py: whether knapsack() has returned

sudokuVars == <<sudoku, _variables, _domains, _csp, solution, op, frames, assignment, applied>>
peerVars == <<cell, peers>>
hanoiVars == <<towers, calls, op_counter, error>>
knapsackVars == <<items, max_capacity, selection, returned>>
vars ==
    <<sudoku, _variables, _domains, _csp, solution, op, frames, assignment, applied,
      cell, peers, towers, calls, op_counter, error, items, max_capacity, selection,
      returned>>

----------------------------------------------------------------------------
(* Bounds of the model *)

\* the grids differ from a solved grid only on the first WinCells window cells
WinCells == 5
\* up to this many trailing rows of the grid are blank
MaxBlankRows == 2
\* solve() is called again until it has applied this many solutions
MaxSolves == 2
\* hanoi() is run on 1 .. MaxDiscs discs
MaxDiscs == 6
\* knapsack() is run on up to MaxItems items of weight 1 .. MaxWeight and value
\* 0 .. MaxValue, with max_capacity 0 .. MaxCapacity
MaxItems == 3
MaxWeight == 2
MaxValue == 2
MaxCapacity == 3

----------------------------------------------------------------------------
(* H3/sudoku_solver.py *)

Dim == 9
None == 0

Rows == 0 .. (Dim - 1)
Cells == Rows \X Rows
Digits == 1 .. 9

\* Python's order on tuples (row, col)
TupleLt(a, b) == a[1] < b[1] \/ (a[1] = b[1] /\ a[2] < b[2])
TupleGt(a, b) == TupleLt(b, a)

\* sorted(...) of a collection of cells without repeats
SortedCells(S) ==
    [i \in 1 .. Cardinality(S) |->
        CHOOSE x \in S : Cardinality({y \in S : TupleLt(y, x)}) = i - 1] \o <<>>

\* list(set(...)) of digits: CPython lists a set in the order of its hash table,
\* which is ascending for some sets and not for others; the order is a choice
\* between ascending and descending
HashOrders == {"ascending", "descending"}
ListOfSet(S, order) ==
    [i \in 1 .. Cardinality(S) |->
        CHOOSE x \in S :
            Cardinality({y \in S : IF order = "ascending" THEN y < x ELSE y > x}) = i - 1] \o <<>>

Range(s) == {s[i] : i \in 1 .. Len(s)}

\* the list a nested comprehension builds: the inner lists one after the other
RECURSIVE Flatten(_)
Flatten(ss) == IF ss = <<>> THEN <<>> ELSE Head(ss) \o Flatten(Tail(ss))

generate_variables ==
    [i \in 1 .. Dim * Dim |-> <<(i - 1) \div Dim, (i - 1) % Dim>>] \o <<>>

\* a plausible slip: the comprehension over the column is left out
restricting_cells_raw_NoColumn(c) ==
    LET row == c[1]
        col == c[2]
        block_row == row \div 3
        block_col == col \div 3
    IN  SortedCells({<<row, cc>> : cc \in Rows \ {col}})
        \o SortedCells({<<3 * block_row + i, 3 * block_col + j>> :
                          i \in {x \in 0 .. 2 : 3 * block_row + x # row},
                          j \in {y \in 0 .. 2 : 3 * block_col + y # col}})

\* the concatenation of the three comprehensions, before list(set(..))
restricting_cells_raw(c) ==
    LET row == c[1]
        col == c[2]
        block_row == row \div 3
        block_col == col \div 3
    IN  SortedCells({<<row, cc>> : cc \in Rows \ {col}})
        \o SortedCells({<<r, col>> : r \in Rows \ {row}})
        \o SortedCells({<<3 * block_row + i, 3 * block_col + j>> :
                          i \in {x \in 0 .. 2 : 3 * block_row + x # row},
                          j \in {y \in 0 .. 2 : 3 * block_col + y # col}})

generate_restricting_cells(c) == SortedCells(Range(restricting_cells_raw(c)))

\* the calls self.generate_restricting_cells(var), one per cell
RestrictingCells == [c \in Cells |-> generate_restricting_cells(c)] @@ <<>>

\* a plausible slip: the used values are computed and not taken off all_options
generate_domains_KeepsUsed(grid, variables, order) ==
    [var \in Range(variables) |->
        IF grid[var] = None
        THEN ListOfSet(Digits \ {None}, order)
        ELSE <<grid[var]>>] @@ <<>>

generate_domains(grid, variables, order) ==
    [var \in Range(variables) |->
        IF grid[var] = None
        THEN LET used_values ==
                     {grid[p] : p \in {q \in Range(RestrictingCells[var]) : grid[q] # None}}
             IN  ListOfSet((Digits \ used_values) \ {None}, order)
        ELSE <<grid[var]>>] @@ <<>>

\* a plausible slip: the filter "if cell > restricting_cell" is left out
ConstraintPairs_NoFilter(variables) ==
    Flatten([k \in 1 .. Len(variables) |->
        LET kept == RestrictingCells[variables[k]]
        IN  [j \in 1 .. Len(kept) |-> <<variables[k], kept[j]>>] \o <<>>] \o <<>>)

\* the list of (cell, restricting_cell) the loop of setup_csp runs over
ConstraintPairs(variables) ==
    Flatten([k \in 1 .. Len(variables) |->
        LET kept == SelectSeq(RestrictingCells[variables[k]],
                              LAMBDA rc : TupleGt(variables[k], rc))
        IN  [j \in 1 .. Len(kept) |-> <<variables[k], kept[j]>>] \o <<>>] \o <<>>)

SudokuConstraint(c, rc) == <<c, rc>>

\* a plausible slip: the two cells are compared instead of their values
satisfied_ComparesCells(con, a) ==
    IF con[1] \in DOMAIN a /\ con[2] \in DOMAIN a
    THEN con[1] # con[2]
    ELSE TRUE

satisfied(con, a) ==
    IF con[1] \in DOMAIN a /\ con[2] \in DOMAIN a
    THEN a[con[1]] # a[con[2]]
    ELSE TRUE

----------------------------------------------------------------------------
(* The CSP engine imported from module csp (spec.md 4.2) *)

\* CSP(variables, domains): the per-variable constraint index starts empty; the
\* domains are taken as sudoku_solver.py passes them
CSP(variables, domains) ==
    [variables |-> variables,
     domains |-> domains,
     constraints |-> [v \in Range(variables) |-> <<>>] @@ <<>>]

\* registers the constraint against every variable it mentions
add_constraint(csp, con) ==
    [csp EXCEPT !.constraints =
        [@ EXCEPT ![con[1]] = Append(@, con), ![con[2]] = Append(@, con)]]

\* the local consistency check of step 3b: every constraint registered against v
consistent(csp, v, local_assignment) ==
    \A i \in 1 .. Len(csp.constraints[v]) :
        satisfied(csp.constraints[v][i], local_assignment)

\* step 1: the assignment covers every variable
Complete(csp, a) == Cardinality(DOMAIN a) = Len(csp.variables)

\* step 2: the first variable, in the engine's order, not in the assignment
FirstUnassigned(csp, a) ==
    csp.variables[CHOOSE i \in 1 .. Len(csp.variables) :
                      /\ csp.variables[i] \notin DOMAIN a
                      /\ \A j \in 1 .. (i - 1) : csp.variables[j] \in DOMAIN a]

Found(a) == [found |-> TRUE, assignment |-> a]
NoSolution == [found |-> FALSE, assignment |-> <<>>]

\* a call backtracking_search(a) that is not at the base case: its frame
Frame(csp, a) == [first |-> FirstUnassigned(csp, a), i |-> 1]

----------------------------------------------------------------------------
(* Sudoku.setup_csp and Sudoku.solve *)

\* the loop "for (c, rc) in [...]: self._csp.add_constraint(SudokuConstraint(c, rc))"
\* over pairs[lo .. hi], in list order (split in halves to keep the evaluation shallow)
RECURSIVE AddConstraints(_, _, _, _)
AddConstraints(csp, pairs, lo, hi) ==
    IF lo > hi \/ csp.variables = <<>> THEN csp
    ELSE IF lo = hi
    THEN add_constraint(csp, SudokuConstraint(pairs[lo][1], pairs[lo][2]))
    ELSE LET mid == (lo + hi) \div 2
         IN  AddConstraints(AddConstraints(csp, pairs, lo, mid), pairs, mid + 1, hi)

\* the constraint index after the loop; it depends on the variables only
RegisteredConstraints ==
    LET pairs == ConstraintPairs(generate_variables)
    IN  AddConstraints(CSP(generate_variables, <<>>), pairs, 1, Len(pairs)).constraints

setup_csp(grid, order) ==
    LET variables == generate_variables
        domains == generate_domains(grid, variables, order)
    IN  [variables |-> variables,
         domains |-> domains,
         csp |-> [CSP(variables, domains) EXCEPT !.constraints = RegisteredConstraints]]

\* a plausible slip: self.sudoku[c][r] = value
ApplySolution_Transposed(grid, a) ==
    [c \in Cells |-> IF <<c[2], c[1]>> \in DOMAIN a THEN a[<<c[2], c[1]>>] ELSE grid[c]]

\* the grid after the loop over solution.items()
ApplySolution(grid, a) ==
    [c \in Cells |-> IF c \in DOMAIN a THEN a[c] ELSE grid[c]]

----------------------------------------------------------------------------
(* The grids given to Sudoku(cells) *)

\* a solved grid
Solved == [c \in Cells |-> ((3 * (c[1] % 3) + (c[1] \div 3) + c[2]) % 9) + 1] @@ <<>>

WindowOrder ==
    << <<0, 0>>, <<0, 1>>, <<1, 0>>, <<4, 4>>, <<0, 3>>, <<1, 1>>, <<3, 0>>, <<8, 8>> >>
Window == {WindowOrder[i] : i \in 1 .. (IF WinCells < 8 THEN WinCells ELSE 8)}

\* Solved with the cells of B and the last k rows blank, and the clue ov[2] at ov[1]
Clues(B, k, ov) ==
    [c \in Cells |->
        IF c \in B \/ c[1] >= Dim - k THEN None
        ELSE IF ov # <<>> /\ c = ov[1] THEN ov[2]
        ELSE Solved[c]]

Unset == <<>>

InitSudoku ==
    /\ \E B \in SUBSET Window, k \in 0 .. MaxBlankRows :
         \E ov \in {<<>>} \cup {<<c, d>> : c \in Window \ B, d \in Digits} :
            /\ (k = 0 \/ ov = <<>>)
            /\ sudoku = Clues(B, k, ov)
    /\ _variables = Unset
    /\ _domains = Unset
    /\ _csp = Unset
    /\ solution = NoSolution
    /\ op = "init"
    /\ frames = <<>>
    /\ assignment = <<>>
    /\ applied = 0

SetupCsp ==
    /\ op # "search"
    /\ \E order \in HashOrders :
          LET s == setup_csp(sudoku, order)
          IN  /\ _variables' = s.variables
              /\ _domains' = s.domains
              /\ _csp' = s.csp
    /\ solution' = NoSolution
    /\ op' = "setup_csp"
    /\ UNCHANGED <<sudoku, frames, assignment, applied>>

\* backtracking_search returns result to solve(), which applies it
Return(result) ==
    /\ solution' = result
    /\ sudoku' = IF result.found THEN ApplySolution(sudoku, result.assignment) ELSE sudoku
    /\ op' = "solve"
    /\ frames' = <<>>
    /\ assignment' = <<>>
    /\ applied' = IF result.found THEN applied + 1 ELSE applied

\* a call backtracking_search(a): the base case returns a through every caller
\* (step 3d), otherwise the call starts on its first unassigned variable
Call(a) ==
    IF Complete(_csp, a)
    THEN Return(Found(a))
    ELSE /\ frames' = Append(frames, Frame(_csp, a))
         /\ assignment' = a
         /\ op' = "search"
         /\ UNCHANGED <<sudoku, solution, applied>>

\* solve() calls self._csp.backtracking_search()
Solve ==
    /\ op \in {"setup_csp", "solve"}
    /\ applied < MaxSolves
    /\ Call(<<>>)
    /\ UNCHANGED <<_variables, _domains, _csp>>

\* step 3: the innermost call tries the next value of its variable
TryValue ==
    /\ op = "search"
    /\ LET top == frames[Len(frames)]
       IN  /\ top.i <= Len(_csp.domains[top.first])
           /\ LET local_assignment == assignment @@ (top.first :> _csp.domains[top.first][top.i])
              IN  IF consistent(_csp, top.first, local_assignment)
                  THEN Call(local_assignment)
                  ELSE /\ frames' = [frames EXCEPT ![Len(frames)].i = @ + 1]
                       /\ UNCHANGED <<sudoku, solution, op, assignment, applied>>
    /\ UNCHANGED <<_variables, _domains, _csp>>

\* step 4: the innermost call has no value left and returns "no solution"; its
\* caller goes on with its next value, and solve() gets the result of the outermost call
Backtrack ==
    /\ op = "search"
    /\ LET top == frames[Len(frames)]
       IN  /\ top.i > Len(_csp.domains[top.first])
           /\ IF Len(frames) = 1
              THEN Return(NoSolution)
              ELSE LET caller == frames[Len(frames) - 1]
                   IN  /\ frames' = [SubSeq(frames, 1, Len(frames) - 1)
                                        EXCEPT ![Len(frames) - 1].i = @ + 1]
                       /\ assignment' = [v \in DOMAIN assignment \ {caller.first} |-> assignment[v]]
                       /\ UNCHANGED <<sudoku, solution, op, applied>>
    /\ UNCHANGED <<_variables, _domains, _csp>>

SudokuIdle ==
    /\ sudoku = Unset
    /\ _variables = Unset
    /\ _domains = Unset
    /\ _csp = Unset
    /\ solution = NoSolution
    /\ op = "idle"
    /\ frames = <<>>
    /\ assignment = <<>>
    /\ applied = 0

----------------------------------------------------------------------------
(* Calls of Sudoku.generate_restricting_cells *)

NotCalled == <<>>

InitPeers == cell \in Cells /\ peers = NotCalled
PeersIdle == cell = <<0, 0>> /\ peers = NotCalled

GenerateRestrictingCells ==
    /\ peers = NotCalled
    /\ peers' = generate_restricting_cells(cell)
    /\ UNCHANGED cell

----------------------------------------------------------------------------
(* H1/hanoi.py and H1/stack.py *)

\* hanoi_validator: the assertion holds for every pair of neighbours
hanoi_validator(contents) ==
    \A k \in 1 .. (Len(contents) - 1) : contents[k] > contents[k + 1]

\* Stack.push: the container after the append
push(container, item) == Append(container, item)

\* Stack.pop: the item returned and the container left
pop(container) ==
    [item |-> container[Len(container)],
     container |-> SubSeq(container, 1, Len(container) - 1)]

\* a plausible slip: the first call keeps the order (begin, end, temporary)
HanoiCall_SameOrder(f, k) ==
    IF k = 1 THEN [begin |-> f.begin, end |-> f.end, temporary |-> f.temporary, n |-> f.n - 1, pc |-> 1]
    ELSE IF k = 2 THEN [begin |-> f.begin, end |-> f.end, temporary |-> f.temporary, n |-> 1, pc |-> 1]
    ELSE [begin |-> f.temporary, end |-> f.end, temporary |-> f.begin, n |-> f.n - 1, pc |-> 1]

\* the k-th recursive call of hanoi(begin, end, temporary, n) for n # 1
HanoiCall(f, k) ==
    IF k = 1 THEN [begin |-> f.begin, end |-> f.temporary, temporary |-> f.end, n |-> f.n - 1, pc |-> 1]
    ELSE IF k = 2 THEN [begin |-> f.begin, end |-> f.end, temporary |-> f.temporary, n |-> 1, pc |-> 1]
    ELSE [begin |-> f.temporary, end |-> f.end, temporary |-> f.begin, n |-> f.n - 1, pc |-> 1]

\* tower_a holds the discs num_discs .. 1, pushed without a validator, and the
\* main program calls hanoi(tower_a, tower_b, tower_c, num_discs)
InitHanoi ==
    \E num_discs \in 1 .. MaxDiscs :
        /\ towers = [a |-> [k \in 1 .. num_discs |-> num_discs + 1 - k], b |-> <<>>, c |-> <<>>]
        /\ calls = <<[begin |-> "a", end |-> "b", temporary |-> "c", n |-> num_discs, pc |-> 1]>>
        /\ op_counter = 0
        /\ error = "none"

HanoiIdle ==
    /\ towers = [a |-> <<>>, b |-> <<>>, c |-> <<>>]
    /\ calls = <<>>
    /\ op_counter = 0
    /\ error = "none"

Top == calls[Len(calls)]
Returned == SubSeq(calls, 1, Len(calls) - 1)

\* n == 1: end.push(begin.pop(), hanoi_validator), then the call returns
MoveDisc ==
    /\ error = "none" /\ calls # <<>>
    /\ Top.n = 1
    /\ op_counter' = op_counter + 2
    /\ IF towers[Top.begin] = <<>>
       THEN error' = "IndexError" /\ UNCHANGED <<towers, calls>>
       ELSE LET popped == pop(towers[Top.begin])
                pushed == push(towers[Top.end], popped.item)
            IN  /\ towers' = [towers EXCEPT ![Top.begin] = popped.container, ![Top.end] = pushed]
                /\ IF hanoi_validator(pushed)
                   THEN calls' = Returned /\ UNCHANGED error
                   ELSE error' = "AssertionError" /\ UNCHANGED calls

\* n # 1: the call makes its next recursive call
Recurse ==
    /\ error = "none" /\ calls # <<>>
    /\ Top.n # 1 /\ Top.pc <= 3
    /\ calls' = Append([calls EXCEPT ![Len(calls)].pc = @ + 1], HanoiCall(Top, Top.pc))
    /\ UNCHANGED <<towers, op_counter, error>>

\* n # 1: the three calls are done and the call returns
ReturnHanoi ==
    /\ error = "none" /\ calls # <<>>
    /\ Top.n # 1 /\ Top.pc = 4
    /\ calls' = Returned
    /\ UNCHANGED <<towers, op_counter, error>>

----------------------------------------------------------------------------
(* H9/01knapsack.py *)

Max(a, b) == IF a >= b THEN a ELSE b

\* a plausible slip: "if wk >= w", so an item that fills the capacity is never taken
BenefitRow_Strict(previous, item, capacity) ==
    [w \in 0 .. capacity |->
        IF item.weight >= w
        THEN previous[w]
        ELSE Max(previous[w], previous[w - item.weight] + item.value)]

\* row k of benefit from row k - 1 and item k
BenefitRow(previous, item, capacity) ==
    [w \in 0 .. capacity |->
        IF item.weight > w
        THEN previous[w]
        ELSE Max(previous[w], previous[w - item.weight] + item.value)]

\* rows 0 .. k of the table benefit; row k is at index k + 1
RECURSIVE Benefit(_, _, _)
Benefit(its, capacity, k) ==
    IF k = 0
    THEN <<[w \in 0 .. capacity |-> 0]>>
    ELSE LET rows == Benefit(its, capacity, k - 1)
         IN  Append(rows, BenefitRow(rows[k], its[k], capacity))

\* the loop "for i in range(len(items), 0, -1)" from i down, with the capacity left
RECURSIVE WorkBackwards(_, _, _, _)
WorkBackwards(its, benefit, i, capacity) ==
    IF i = 0 THEN <<>>
    ELSE IF benefit[i][capacity] # benefit[i + 1][capacity]
    THEN <<its[i]>> \o WorkBackwards(its, benefit, i - 1, capacity - its[i].weight)
    ELSE WorkBackwards(its, benefit, i - 1, capacity)

knapsack(its, capacity) ==
    WorkBackwards(its, Benefit(its, capacity, Len(its)), Len(its), capacity)

\* the items are named by their place in the list
ItemLists ==
    UNION {[1 .. n -> (1 .. MaxWeight) \X (0 .. MaxValue)] : n \in 0 .. MaxItems}

InitKnapsack ==
    /\ \E l \in ItemLists :
          items = [k \in 1 .. Len(l) |-> [name |-> k, weight |-> l[k][1], value |-> l[k][2]]]
    /\ max_capacity \in 0 .. MaxCapacity
    /\ selection = <<>>
    /\ returned = FALSE

KnapsackIdle == items = <<>> /\ max_capacity = 0 /\ selection = <<>> /\ returned = FALSE

Knapsack ==
    /\ ~returned
    /\ selection' = knapsack(items, max_capacity)
    /\ returned' = TRUE
    /\ UNCHANGED <<items, max_capacity>>

----------------------------------------------------------------------------
(* The specifications *)

Init == InitSudoku /\ PeersIdle /\ HanoiIdle /\ KnapsackIdle
Next ==
    \/ SetupCsp /\ UNCHANGED <<peerVars, hanoiVars, knapsackVars>>
    \/ Solve /\ UNCHANGED <<peerVars, hanoiVars, knapsackVars>>
    \/ TryValue /\ UNCHANGED <<peerVars, hanoiVars, knapsackVars>>
    \/ Backtrack /\ UNCHANGED <<peerVars, hanoiVars, knapsackVars>>
Spec == Init /\ [][Next]_vars

InitP == SudokuIdle /\ InitPeers /\ HanoiIdle /\ KnapsackIdle
NextP == GenerateRestrictingCells /\ UNCHANGED <<sudokuVars, hanoiVars, knapsackVars>>
SpecPeers == InitP /\ [][NextP]_vars

InitH == SudokuIdle /\ PeersIdle /\ InitHanoi /\ KnapsackIdle
NextH ==
    \/ MoveDisc /\ UNCHANGED <<sudokuVars, peerVars, knapsackVars>>
    \/ Recurse /\ UNCHANGED <<sudokuVars, peerVars, knapsackVars>>
    \/ ReturnHanoi /\ UNCHANGED <<sudokuVars, peerVars, knapsackVars>>
SpecHanoi == InitH /\ [][NextH]_vars

InitK == SudokuIdle /\ PeersIdle /\ HanoiIdle /\ InitKnapsack
NextK == Knapsack /\ UNCHANGED <<sudokuVars, peerVars, hanoiVars>>
SpecKnapsack == InitK /\ [][NextK]_vars

----------------------------------------------------------------------------
(* Properties of the Sudoku solver *)

SameRow(a, b) == a[1] = b[1]
SameColumn(a, b) == a[2] = b[2]
SameBlock(a, b) == a[1] \div 3 = b[1] \div 3 /\ a[2] \div 3 = b[2] \div 3
IsPeer(a, b) == a # b /\ (SameRow(a, b) \/ SameColumn(a, b) \/ SameBlock(a, b))
PeerSet == [c \in Cells |-> {p \in Cells : IsPeer(c, p)}] @@ <<>>

\* the 27 units: rows, columns and 3x3 blocks
Units ==
    {{c \in Cells : c[1] = r} : r \in Rows}
    \cup {{c \in Cells : c[2] = k} : k \in Rows}
    \cup {{c \in Cells : c[1] \div 3 = br /\ c[2] \div 3 = bc} : br \in 0 .. 2, bc \in 0 .. 2}

ValidSolved(grid) ==
    /\ \A c \in Cells : grid[c] \in Digits
    /\ \A u \in Units : \A d \in Digits : Cardinality({c \in u : grid[c] = d}) = 1

HasRowDuplicate(grid) ==
    \E a \in Cells, b \in Cells :
        a # b /\ SameRow(a, b) /\ grid[a] # None /\ grid[a] = grid[b]

\* C1: whenever solve() got a solution from the search, the grid afterwards is
\* completely filled with digits 1..9 and every row, column and block holds each
\* digit exactly once.
C1_SolvedGridValid == (op = "solve" /\ solution.found) => ValidSolved(sudoku)
\* a solve() that found a solution other than the grid the clues were taken from
C1_Witness == op = "solve" /\ solution.found /\ sudoku # Solved

\* C2: solve() changes the grid only by applying a found solution: without a
\* solution every cell stays as it was, with one every cell gets the solution's
\* value and every clue keeps its digit; no other step touches the grid.
C2_SolveFrame ==
    [][/\ (op' # "solve" => sudoku' = sudoku)
       /\ (op' = "solve" /\ ~solution'.found => sudoku' = sudoku)
       /\ (op' = "solve" /\ solution'.found =>
              \A c \in Cells : /\ sudoku'[c] = solution'.assignment[c]
                               /\ (sudoku[c] # None => sudoku'[c] = sudoku[c]))]_vars
\* a failed solve() on a grid with blanks
C2_Witness == op = "solve" /\ ~solution.found /\ \E c \in Cells : sudoku[c] = None

\* C3: when two clue cells of one row hold the same digit, the search returns
\* "no solution".
C3_RowDuplicateNoSolution ==
    [][(op = "search" /\ op' = "solve" /\ HasRowDuplicate(sudoku)) => ~solution'.found]_vars
\* the scenario of two equal clues at (0,0) and (0,3)
C3_Witness ==
    /\ op = "solve" /\ ~solution.found
    /\ sudoku[<<0, 0>>] # None /\ sudoku[<<0, 0>>] = sudoku[<<0, 3>>]

HasEmptyDomain == \E v \in DOMAIN _csp.domains : _csp.domains[v] = <<>>

C6_OneConstraintPerPeerPair ==
    op = "setup_csp" =>
        \A v \in Cells :
            LET cs == _csp.constraints[v]
            IN  \* the pairs registered with v are the pairs of v and a peer, none twice
                /\ {{cs[i][1], cs[i][2]} : i \in 1 .. Len(cs)} = {{v, p} : p \in PeerSet[v]}
                /\ Len(cs) = Cardinality(PeerSet[v])
C6_Witness == op = "setup_csp" /\ Len(_csp.constraints[<<4, 4>>]) = 20

\* C7: after generate_domains a blank cell's domain lists, once each, the digits
\* 1..9 that no peer holds as a clue, and a clue cell's domain is its digit alone.
C7_Domains ==
    op = "setup_csp" =>
        /\ DOMAIN _domains = Cells
        /\ \A v \in Cells :
              IF sudoku[v] = None
              THEN /\ Range(_domains[v]) = {d \in Digits : \A p \in PeerSet[v] : sudoku[p] # d}
                   /\ Len(_domains[v]) = Cardinality(Range(_domains[v]))
              ELSE _domains[v] = <<sudoku[v]>>
\* a blank cell with several candidates beside a clue cell that repeats a peer's digit
C7_Witness ==
    /\ op = "setup_csp"
    /\ \E v \in Cells : sudoku[v] = None /\ Len(_domains[v]) >= 2
    /\ \E v \in Cells : sudoku[v] # None /\ \E p \in PeerSet[v] : sudoku[p] = sudoku[v]

\* C8: once a solve() has filled the grid, a further solve() leaves every cell as
\* it is.
C8_SecondSolveNoOp == [][(op' = "solve" /\ applied >= 1) => sudoku' = sudoku]_vars
C8_Witness == op = "solve" /\ applied = 2

----------------------------------------------------------------------------
(* Properties of generate_restricting_cells *)

\* C5: generate_restricting_cells(cell) lists, once each, exactly the 20 cells of
\* the grid that share the cell's row, column or block, the cell itself left out;
\* and p is listed for cell exactly when cell is listed for p.
C5_RestrictingCells ==
    peers # NotCalled =>
        /\ Range(peers) = PeerSet[cell]
        /\ Range(peers) \subseteq Cells \ {cell}
        /\ Len(peers) = 20
        /\ Cardinality(Range(peers)) = Len(peers)
        /\ \A p \in Cells : p \in Range(peers) <=> cell \in Range(RestrictingCells[p])
\* the call for a cell in the middle of the grid
C5_Witness == peers # NotCalled /\ cell = <<4, 4>> /\ <<3, 3>> \in Range(peers)

----------------------------------------------------------------------------
(* Properties of hanoi *)

Decreasing(contents) == \A j \in 1 .. Len(contents), k \in 1 .. Len(contents) : j < k => contents[j] > contents[k]

\* C9: while hanoi runs, every tower holds its discs in strictly decreasing size
\* from bottom to top, and the assertion of hanoi_validator never fails.
C9_TowersOrdered ==
    /\ error = "none"
    /\ \A t \in {"a", "b", "c"} : Decreasing(towers[t])
\* the run on MaxDiscs discs, when the largest disc has just reached tower_b
C9_Witness ==
    /\ towers.a = <<>> /\ Len(towers.b) = 1 /\ Len(towers.c) = MaxDiscs - 1
    /\ towers.b[1] = MaxDiscs

----------------------------------------------------------------------------
(* Properties of knapsack *)

RECURSIVE SumOver(_, _, _)
SumOver(its, S, field) ==
    IF S = {} THEN 0
    ELSE LET k == CHOOSE x \in S : TRUE
         IN  (IF field = "weight" THEN its[k].weight ELSE its[k].value)
             + SumOver(its, S \ {k}, field)

Names(sel) == {sel[k].name : k \in 1 .. Len(sel)}

\* C10: knapsack returns items of the list, each at most once, of total weight at
\* most max_capacity and of the largest total value any such subset has.
C10_KnapsackOptimal ==
    returned =>
        /\ \A k \in 1 .. Len(selection) :
              selection[k].name \in 1 .. Len(items) /\ items[selection[k].name] = selection[k]
        /\ Cardinality(Names(selection)) = Len(selection)
        /\ SumOver(items, Names(selection), "weight") <= max_capacity
        /\ \A S \in SUBSET (1 .. Len(items)) :
              SumOver(items, S, "weight") <= max_capacity
                  => SumOver(items, S, "value") <= SumOver(items, Names(selection), "value")
\* a run that takes some of the items and leaves out one of positive value
C10_Witness ==
    /\ returned /\ selection # <<>>
    /\ \E k \in 1 .. Len(items) : items[k].value > 0 /\ k \notin Names(selection)

====
